---- MODULE Spec2Model ----
(***************************************************************************)
(* Coordination core of the overlay tiler: the /process start, the slice   *)
(* workers (lease loop, commit goroutines, error channel), the checkDone   *)
(* transaction and the zip task, for one Overlay entity.                   *)
(***************************************************************************)
EXTENDS Integers, Sequences, FiniteSets, Bags, TLC

\* ------------------------------------------------------------------ bounds
MaxTiles == 2        \* largest tile list a /process request computes
NumWorkers == 2      \* slice backends that run sliceHandler
MaxExpire == 1       \* lease expiries of the tile queue
MaxErrors == 1       \* injected API failures (datastore, taskqueue)
MaxProcess == 2      \* /process requests for the Overlay under SpecRe

ZipMaxZoom == 2      \* o.MaxZoom of the jobs whose archive SpecZip assembles

\* ------------------------------------------------------- program constants
inFlight == 10
tilesPerZoom == 1000
txAttempts == 3
zipSentinel == "ZIP_RUNNING"

Workers == 1..NumWorkers

\* The tiles processHandler can compute, in the order the zoom loop appends them.
AllTiles ==
    << [X |-> 0, Y |-> 0, Zoom |-> 0],
       [X |-> 1, Y |-> 0, Zoom |-> 1],
       [X |-> 2, Y |-> 0, Zoom |-> 2],
       [X |-> 2, Y |-> 1, Zoom |-> 2],
       [X |-> 3, Y |-> 1, Zoom |-> 2] >>

\* A pull task of the tile queue: the /process run that added it and the
\* index of the tile its payload holds.
Tasks == (1..MaxProcess) \X (1..MaxTiles)

TaskTile(task) == AllTiles[task[2]]

\* Tile.String: "%d,%d,%d" of X, Y, Zoom.
TileString(t) == <<t.X, t.Y, t.Zoom>>

\* A key that datastore allocates per Put (an incomplete key) instead of the
\* tile's name.
TileKeyPerContext(c, t) == <<"Tile", c, TileString(t)>>

\* Tile.Key: datastore.NewKey(c, "Tile", t.String(), 0, parent); the context
\* is no part of the key.
TileKey(c, t) == <<"Tile", 0, TileString(t)>>

\* done with the comparison made strict.
CheckDoneStrict(tiles, count) == tiles > count

\* done as the transaction function assigns it.
CheckDoneDone(tiles, count) == tiles >= count

\* The guard that skips the trigger without looking at the Zip field.
CreateZipTaskAlways(done, zip) == done

\* checkDone goes on to create the zip task unless (!done || o.Zip != "").
CreateZipTask(done, zip) == ~(~done \/ zip # "")

\* A /zip task as taskqueue.Add stores it: not yet run.
NewZipTask == [pc |-> "queued", o |-> [Tiles |-> 0, Zip |-> ""], entries |-> <<>>]

\* taskqueue.Add outside the transaction: the task is in the queue at once.
ZipQueueAddNow(zq, create) == IF create THEN Append(zq, NewZipTask) ELSE zq

\* taskqueue.Add with the transaction's context: nothing reaches the queue
\* while the transaction function runs.
ZipQueueInTx(zq, create) == zq

\* A commit goroutine that goes on to delete whatever PutMulti returned.
AfterPutMultiAlwaysDelete(err) == "del"

\* The goroutine after PutMulti: an error goes to errc and the goroutine
\* returns, otherwise the deletes start.
AfterPutMulti(err) == IF err # "nil" THEN "errc" ELSE "del"

VARIABLES
    overlay,    \* the Overlay entity: [Tiles, Zip]
    rows,       \* keys of the stored Tile entities (children of the Overlay)
    q,          \* tile queue: task -> "absent" | "visible" | "leased" | "deleted"
    zips,       \* the zip queue: the zipHandler run of each /zip task
    blobs,      \* blobstore: blob number -> tile keys in the archive
    msgs,       \* messages passed to send
    proc,       \* the /process request: [pc, o, runs, limit]
    pc,         \* sliceHandler position of each worker
    wo,         \* o.Tiles as getOverlay read it at the start of sliceHandler
    errs,       \* goroutines spawned in the pass
    recvd,      \* values received from errc in the wait loop
    err,        \* err of the wait loop
    errc,       \* the buffered error channel
    gor,        \* commit goroutines
    tx,         \* checkDone: the transaction attempt
    done,       \* checkDone's result
    logged,     \* the worker logged "Not done; trying again"
    nexp,       \* lease expiries so far
    nerr,       \* injected failures so far
    sendq,      \* the send queue: bag of the messages of its /send tasks
    lost,       \* messages whose failed send was logged
    dl          \* the response of the last /download request

vars == <<overlay, rows, q, zips, blobs, msgs, proc, pc, wo, errs,
          recvd, err, errc, gor, tx, done, logged, nexp, nerr, sendq, lost, dl>>

\* What the send queue and the /download request add to the state.
outVars == <<sendq, lost, dl>>

workerVars == <<pc, wo, errs, recvd, err, errc, gor, tx, done, logged>>

NoTx == [tiles |-> 0, count |-> 0, zip |-> "", create |-> FALSE,
         buffered |-> FALSE, dirty |-> FALSE, attempt |-> 0]

InitWith(limit) ==
    /\ overlay = [Tiles |-> 0, Zip |-> ""]
    /\ rows = {}
    /\ q = [t \in Tasks |-> "absent"]
    /\ zips = <<>>
    /\ blobs = <<>>
    /\ msgs = {}
    /\ proc = [pc |-> "idle", o |-> [Tiles |-> 0, Zip |-> ""], runs |-> 0,
               limit |-> limit]
    /\ pc = [w \in Workers |-> "idle"]
    /\ wo = [w \in Workers |-> 0]
    /\ errs = [w \in Workers |-> 0]
    /\ recvd = [w \in Workers |-> 0]
    /\ err = [w \in Workers |-> "nil"]
    /\ errc = [w \in Workers |-> <<>>]
    /\ gor = [w \in Workers |-> {}]
    /\ tx = [w \in Workers |-> NoTx]
    /\ done = [w \in Workers |-> FALSE]
    /\ logged = [w \in Workers |-> FALSE]
    /\ nexp = 0
    /\ nerr = 0
    /\ sendq = EmptyBag
    /\ lost = {}
    /\ dl = [status |-> "none", blob |-> ""]

\* The state after uploadHandler stored the new Overlay.
Init == InitWith(1)

InitRe == InitWith(MaxProcess)

\* ------------------------------------------------------------- helpers
TaskLess(a, b) == a[1] < b[1] \/ (a[1] = b[1] /\ a[2] < b[2])

MinTask(S) == CHOOSE t \in S : \A u \in S : t = u \/ TaskLess(t, u)

RECURSIVE TaskSeq(_)
\* The tasks of a lease, in the order LeaseByTag returns them.
TaskSeq(S) == IF S = {} THEN <<>> ELSE <<MinTask(S)>> \o TaskSeq(S \ {MinTask(S)})

Visible == {t \in Tasks : q[t] = "visible"}

Min(a, b) == IF a < b THEN a ELSE b

\* What LeaseByTag(c, inFlight, tileQueue, ...) may return: inFlight of the
\* visible tasks, or all of them when there are fewer.
LeaseResults(visible) ==
    {S \in SUBSET visible :
        Cardinality(S) = Min(inFlight, Cardinality(visible))}

\* make(chan error, o.Tiles/inFlight+1)
ErrcCap(tiles) == tiles \div inFlight + 1

\* appengine.BlobKey of the n-th blob createBlob stores.
BlobKey(n) == "BLOB_" \o ToString(n)

\* ids of Message{Total, IDs}: t.String() of every tile of the batch.
BatchIDs(tasks) == [i \in 1..Len(tasks) |-> TileString(TaskTile(tasks[i]))]

\* A progress message that also announces the end when its batch holds
\* every tile of the job.
ProgressMessageLast(total, ids) ==
    [Total |-> total, IDs |-> ids, TilesDone |-> Len(ids) = total,
     ZipDone |-> FALSE]

ProgressMessage(total, ids) ==
    [Total |-> total, IDs |-> ids, TilesDone |-> FALSE, ZipDone |-> FALSE]

TilesDoneMessage ==
    [Total |-> 0, IDs |-> <<>>, TilesDone |-> TRUE, ZipDone |-> FALSE]

ZipDoneMessage ==
    [Total |-> 0, IDs |-> <<>>, TilesDone |-> FALSE, ZipDone |-> TRUE]

\* A caller of send that takes a failed send for an error of its own.
AfterSendChecked(ok, v) == IF ok THEN v ELSE "send"

\* What the caller of send goes on with: send returns nothing, a failed
\* taskqueue.Add is logged inside it, so the caller goes on as it would
\* after a send that worked.
AfterSend(ok, v) == v

\* send(c, clientID, m): m is passed to send; the /send task is added to
\* the send queue, or the Add fails and the failure is logged.
Send(m, sok) ==
    /\ msgs' = msgs \cup {m}
    /\ sendq' = IF sok THEN sendq (+) SetToBag({m}) ELSE sendq
    /\ lost' = IF sok THEN lost ELSE lost \cup {m}

\* A step in which send is not called.
NoSend == UNCHANGED <<msgs, sendq, lost>>

\* A write to the Overlay's entity group invalidates every transaction that
\* has read the group and not yet committed.
Dirty(t) ==
    [w \in Workers |-> IF pc[w] = "commit" THEN [t[w] EXCEPT !.dirty = TRUE]
                                           ELSE t[w]]

\* A send that gives up when the buffer is full: the value is dropped.
ErrcSendDropping(w, g, v) ==
    /\ errc' = [errc EXCEPT ![w] =
                   IF Len(@) < ErrcCap(wo[w]) THEN Append(@, v) ELSE @]
    /\ gor' = [gor EXCEPT ![w] = @ \ {g}]

\* errc <- v by goroutine g of worker w: the value enters the buffer when
\* there is room and the goroutine ends, otherwise the goroutine blocks.
ErrcSend(w, g, v) ==
    IF Len(errc[w]) < ErrcCap(wo[w])
    THEN /\ errc' = [errc EXCEPT ![w] = Append(@, v)]
         /\ gor' = [gor EXCEPT ![w] = @ \ {g}]
    ELSE /\ errc' = errc
         /\ gor' = [gor EXCEPT ![w] = (@ \ {g}) \cup
                        {[g EXCEPT !.stage = "blocked", !.val = v]}]

\* ------------------------------------------------------ processHandler
\* getOverlay(r): the Overlay as the datastore holds it now.
ProcessGet ==
    /\ proc.pc = "idle"
    /\ proc.runs < proc.limit
    /\ proc' = [proc EXCEPT !.pc = "got", !.o = overlay]
    /\ UNCHANGED <<outVars, overlay, rows, q, zips, blobs, msgs, workerVars, nexp, nerr>>

\* o.Tiles = len(tiles); datastore.Put; addTasks(tileQueue); one /slice task
\* per slice backend. A backend that still runs sliceHandler keeps running it.
ProcessPut(n) ==
    /\ proc.pc = "got"
    /\ overlay' = [proc.o EXCEPT !.Tiles = n]
    /\ q' = [t \in Tasks |->
                IF t[1] = proc.runs + 1 /\ t[2] <= n THEN "visible" ELSE q[t]]
    /\ pc' = [w \in Workers |->
                IF pc[w] \in {"idle", "done", "failed"} /\ gor[w] = {}
                THEN "start" ELSE pc[w]]
    /\ proc' = [proc EXCEPT !.pc = "idle", !.runs = @ + 1]
    /\ tx' = Dirty(tx)
    /\ UNCHANGED <<outVars, rows, zips, blobs, msgs, wo, errs, recvd, err, errc, gor,
                   done, logged, nexp, nerr>>

\* -------------------------------------------------------- sliceHandler
\* getOverlay, imageBlob, and the state at the restart label.
Start(w) ==
    /\ pc[w] = "start"
    /\ wo' = [wo EXCEPT ![w] = overlay.Tiles]
    /\ errs' = [errs EXCEPT ![w] = 0]
    /\ recvd' = [recvd EXCEPT ![w] = 0]
    /\ err' = [err EXCEPT ![w] = "nil"]
    /\ errc' = [errc EXCEPT ![w] = <<>>]
    /\ pc' = [pc EXCEPT ![w] = "lease"]
    /\ tx' = [tx EXCEPT ![w] = NoTx]
    /\ done' = [done EXCEPT ![w] = FALSE]
    /\ logged' = [logged EXCEPT ![w] = FALSE]
    /\ UNCHANGED <<outVars, overlay, rows, q, zips, blobs, msgs, proc, gor, nexp, nerr>>

\* One turn of the lease loop with tasks: the tiles are rendered, the commit
\* goroutine is started, errs++.
Lease(w, S) ==
    /\ pc[w] = "lease"
    /\ S \in LeaseResults(Visible)
    /\ S # {}
    /\ q' = [t \in Tasks |-> IF t \in S THEN "leased" ELSE q[t]]
    /\ gor' = [gor EXCEPT ![w] = @ \cup
                 {[id |-> errs[w] + 1, tasks |-> TaskSeq(S), i |-> 1,
                   stage |-> "put", val |-> "nil"]}]
    /\ errs' = [errs EXCEPT ![w] = @ + 1]
    /\ UNCHANGED <<outVars, overlay, rows, zips, blobs, msgs, proc, pc, wo, recvd, err,
                   errc, tx, done, logged, nexp, nerr>>

\* A wait loop that stops one value short.
WaitMoreShort(i, n) == i < n - 1

\* The wait loop's condition: i < errs.
WaitMore(i, n) == i < n

\* len(tasks) == 0: break, and on to the wait loop.
LeaseEmpty(w) ==
    /\ pc[w] = "lease"
    /\ {} \in LeaseResults(Visible)
    /\ pc' = [pc EXCEPT ![w] = IF WaitMore(0, errs[w]) THEN "wait" ELSE "check"]
    /\ UNCHANGED <<outVars, overlay, rows, q, zips, blobs, msgs, proc, wo, errs, recvd,
                   err, errc, gor, tx, done, logged, nexp, nerr>>

\* LeaseByTag returns an error: "couldn't get more tasks".
LeaseFail(w) ==
    /\ pc[w] = "lease"
    /\ nerr < MaxErrors
    /\ nerr' = nerr + 1
    /\ pc' = [pc EXCEPT ![w] = "failed"]
    /\ UNCHANGED <<outVars, overlay, rows, q, zips, blobs, msgs, proc, wo, errs, recvd,
                   err, errc, gor, tx, done, logged, nexp>>

\* json.Unmarshal or slice returns an error for a leased task: panic(err).
\* The request ends; the leased tasks stay leased, no goroutine is started.
RenderPanic(w, S) ==
    /\ pc[w] = "lease"
    /\ S \in LeaseResults(Visible)
    /\ S # {}
    /\ nerr < MaxErrors
    /\ nerr' = nerr + 1
    /\ q' = [t \in Tasks |-> IF t \in S THEN "leased" ELSE q[t]]
    /\ pc' = [pc EXCEPT ![w] = "failed"]
    /\ UNCHANGED <<outVars, overlay, rows, zips, blobs, msgs, proc, wo, errs,
                   recvd, err, errc, gor, tx, done, logged, nexp>>

\* The lease of a task runs out before the task was deleted.
Expire(t) ==
    /\ q[t] = "leased"
    /\ nexp < MaxExpire
    /\ nexp' = nexp + 1
    /\ q' = [q EXCEPT ![t] = "visible"]
    /\ UNCHANGED <<outVars, overlay, rows, zips, blobs, msgs, proc, workerVars, nerr>>

\* datastore.PutMulti(c, keys, tiles) succeeds.
GoPut(w, g) ==
    /\ g \in gor[w]
    /\ g.stage = "put"
    /\ rows' = rows \cup
          {TileKey(w, TaskTile(g.tasks[i])) : i \in 1..Len(g.tasks)}
    /\ tx' = Dirty(tx)
    /\ gor' = [gor EXCEPT ![w] = (@ \ {g}) \cup
                  {[g EXCEPT !.stage = AfterPutMulti("nil")]}]
    /\ UNCHANGED <<outVars, overlay, q, zips, blobs, msgs, proc, pc, wo, errs, recvd,
                   err, errc, done, logged, nexp, nerr>>

\* datastore.PutMulti fails: no row is stored.
GoPutFail(w, g) ==
    /\ g \in gor[w]
    /\ g.stage = "put"
    /\ nerr < MaxErrors
    /\ nerr' = nerr + 1
    /\ IF AfterPutMulti("put") = "errc"
       THEN ErrcSend(w, g, "put")
       ELSE /\ gor' = [gor EXCEPT ![w] = (@ \ {g}) \cup
                          {[g EXCEPT !.stage = AfterPutMulti("put")]}]
            /\ errc' = errc
    /\ UNCHANGED <<outVars, overlay, rows, q, zips, blobs, msgs, proc, pc, wo, errs,
                   recvd, err, tx, done, logged, nexp>>

\* A goroutine that takes the first delete of the batch for the last.
LastDeleteEarly(i, n) == i = 1

\* The delete loop has run over every task of the batch.
LastDelete(i, n) == i = n

\* taskqueue.Delete of the next task of the batch. Deleting a task that is
\* no longer in the queue is an error. After the last delete: send the
\* progress message, errc <- nil. ok is the outcome of the send as the
\* goroutine sees it, sok its outcome in the send queue.
GoDeleteSend(w, g, ok, sok) ==
    /\ g \in gor[w]
    /\ g.stage = "del"
    /\ LET t == g.tasks[g.i] IN
       IF q[t] = "deleted"
       THEN /\ ErrcSend(w, g, "delete")
            /\ q' = q
            /\ NoSend
       ELSE /\ q' = [q EXCEPT ![t] = "deleted"]
            /\ IF LastDelete(g.i, Len(g.tasks))
               THEN /\ Send(ProgressMessage(wo[w], BatchIDs(g.tasks)), sok)
                    /\ ErrcSend(w, g, AfterSend(ok, "nil"))
               ELSE /\ gor' = [gor EXCEPT ![w] = (@ \ {g}) \cup
                                  {[g EXCEPT !.i = @ + 1]}]
                    /\ errc' = errc
                    /\ NoSend
    /\ UNCHANGED <<dl, overlay, rows, zips, blobs, proc, pc, wo, errs, recvd, err,
                   tx, done, logged, nexp, nerr>>

\* The goroutine's delete step when the send queue takes the message.
GoDelete(w, g) == GoDeleteSend(w, g, TRUE, TRUE)

\* taskqueue.Delete fails: the goroutine reports it and returns.
GoDeleteFail(w, g) ==
    /\ g \in gor[w]
    /\ g.stage = "del"
    /\ nerr < MaxErrors
    /\ nerr' = nerr + 1
    /\ ErrcSend(w, g, "delete")
    /\ UNCHANGED <<outVars, overlay, rows, q, zips, blobs, msgs, proc, pc, wo, errs,
                   recvd, err, tx, done, logged, nexp>>

\* A goroutine blocked on the full channel gets its value in.
GoUnblock(w, g) ==
    /\ g \in gor[w]
    /\ g.stage = "blocked"
    /\ Len(errc[w]) < ErrcCap(wo[w])
    /\ errc' = [errc EXCEPT ![w] = Append(@, g.val)]
    /\ gor' = [gor EXCEPT ![w] = @ \ {g}]
    /\ UNCHANGED <<outVars, overlay, rows, q, zips, blobs, msgs, proc, pc, wo, errs,
                   recvd, err, tx, done, logged, nexp, nerr>>

\* A wait loop that keeps the last value it received.
WaitErrLast(e0, e) == e

\* if e := <-errc; err == nil && e != nil { err = e }
WaitErr(e0, e) == IF e0 = "nil" /\ e # "nil" THEN e ELSE e0

\* One turn of the wait loop; after the last one, the err check.
WaitRecv(w) ==
    /\ pc[w] = "wait"
    /\ recvd[w] < errs[w]
    /\ errc[w] # <<>>
    /\ LET e == Head(errc[w])
           newErr == WaitErr(err[w], e)
       IN /\ err' = [err EXCEPT ![w] = newErr]
          /\ pc' = [pc EXCEPT ![w] =
                       IF WaitMore(recvd[w] + 1, errs[w]) THEN "wait"
                       ELSE IF newErr # "nil" THEN "failed" ELSE "check"]
    /\ errc' = [errc EXCEPT ![w] = Tail(@)]
    /\ recvd' = [recvd EXCEPT ![w] = @ + 1]
    /\ UNCHANGED <<outVars, overlay, rows, q, zips, blobs, msgs, proc, wo, errs, gor,
                   tx, done, logged, nexp, nerr>>

\* ----------------------------------------------------------- checkDone
\* What a committed transaction adds to the zip queue: the task whose Add
\* it buffered.
ZipQueueCommit(zq, buffered) == IF buffered THEN Append(zq, NewZipTask) ELSE zq

\* One run of the transaction function: Get the Overlay, Count the Tile
\* rows, set done, and, if the zip task is to be created, buffer the Add
\* and the Put of the sentinel until the commit. A run that returns nil
\* before the Add wrote nothing: its commit is the snapshot it read.
TxRun(w) ==
    /\ pc[w] = "check"
    /\ LET d == CheckDoneDone(overlay.Tiles, Cardinality(rows))
           create == CreateZipTask(d, overlay.Zip)
       IN /\ tx' = [tx EXCEPT ![w] =
                      [tiles |-> overlay.Tiles, count |-> Cardinality(rows),
                       zip |-> overlay.Zip, create |-> create,
                       buffered |-> create /\ ZipQueueInTx(zips, create) = zips,
                       dirty |-> FALSE, attempt |-> @.attempt + 1]]
          /\ done' = [done EXCEPT ![w] = d]
          /\ zips' = ZipQueueInTx(zips, create)
          /\ pc' = [pc EXCEPT ![w] = IF create THEN "commit" ELSE "checked"]
    /\ UNCHANGED <<outVars, overlay, rows, q, blobs, msgs, proc, wo, errs, recvd, err,
                   errc, gor, logged, nexp, nerr>>

\* A transaction function that adds the task and leaves the Zip field.
SentinelWriteSkipped(o) == o

\* o.Zip = zipSentinel; datastore.Put(c, oKey, o)
SentinelWrite(o) == [o EXCEPT !.Zip = zipSentinel]

\* The commit of the attempt. A transaction that wrote commits only if the
\* entity group is as it read it; RunInTransaction then runs the function
\* again, txAttempts times in all.
TxCommit(w) ==
    /\ pc[w] = "commit"
    /\ IF tx[w].dirty
       THEN /\ IF tx[w].attempt < txAttempts
               THEN /\ pc' = [pc EXCEPT ![w] = "check"]
                    /\ UNCHANGED <<tx, done>>
               ELSE /\ pc' = [pc EXCEPT ![w] = "failed"]
                    /\ done' = [done EXCEPT ![w] = FALSE]
                    /\ tx' = tx
            /\ UNCHANGED <<overlay, zips>>
       ELSE /\ overlay' = SentinelWrite([Tiles |-> tx[w].tiles, Zip |-> tx[w].zip])
            /\ zips' = ZipQueueCommit(zips, tx[w].buffered)
            /\ tx' = Dirty(tx)
            /\ pc' = [pc EXCEPT ![w] = "checked"]
            /\ done' = done
    /\ UNCHANGED <<outVars, rows, q, blobs, msgs, proc, wo, errs, recvd, err, errc,
                   gor, logged, nexp, nerr>>

\* A datastore or taskqueue call of the transaction fails: the buffered
\* writes are dropped, checkDone returns (false, err), sliceHandler returns
\* "could not check job status".
TxFail(w) ==
    /\ pc[w] \in {"check", "commit"}
    /\ nerr < MaxErrors
    /\ nerr' = nerr + 1
    /\ pc' = [pc EXCEPT ![w] = "failed"]
    /\ done' = [done EXCEPT ![w] = FALSE]
    /\ UNCHANGED <<outVars, overlay, rows, q, zips, blobs, msgs, proc, wo, errs, recvd,
                   err, errc, gor, tx, logged, nexp>>

\* A worker that checks again without leasing.
NextAfterCheckRecheck(d) == IF ~d THEN "check" ELSE "done"

\* if !done { ...; goto restart }, else on to the return.
NextAfterCheck(d) == IF ~d THEN "lease" ELSE "done"

\* sliceHandler after checkDone returned (done, nil): log, sleep and goto
\* restart, or send the tiles-done message and return.
AfterCheckDoneSend(w, ok, sok) ==
    /\ pc[w] = "checked"
    /\ IF ~done[w]
       THEN /\ logged' = [logged EXCEPT ![w] = TRUE]
            /\ pc' = [pc EXCEPT ![w] = NextAfterCheck(done[w])]
            /\ NoSend
       ELSE /\ logged' = logged
            /\ pc' = [pc EXCEPT ![w] = AfterSend(ok, NextAfterCheck(done[w]))]
            /\ Send(TilesDoneMessage, sok)
    /\ errs' = [errs EXCEPT ![w] = 0]
    /\ recvd' = [recvd EXCEPT ![w] = 0]
    /\ errc' = [errc EXCEPT ![w] = <<>>]
    /\ tx' = [tx EXCEPT ![w] = NoTx]
    /\ UNCHANGED <<dl, overlay, rows, q, zips, blobs, proc, wo, err, gor, done,
                   nexp, nerr>>

\* The step when the send queue takes the message.
AfterCheckDone(w) == AfterCheckDoneSend(w, TRUE, TRUE)

\* ---------------------------------------------------------- zipHandler
RECURSIVE Decimal(_)
\* %d of a number, as character codes: the digit d is 48 + d.
Decimal(n) ==
    IF n < 10 THEN <<48 + n>> ELSE Decimal(n \div 10) \o <<48 + (n % 10)>>

\* The characters of the key name "%d,%d,%d"; the comma is 44.
NameChars(name) ==
    Decimal(name[1]) \o <<44>> \o Decimal(name[2]) \o <<44>> \o Decimal(name[3])

RECURSIVE CharsLess(_, _)
\* The order of two strings, byte by byte.
CharsLess(a, b) ==
    IF b = <<>> THEN FALSE
    ELSE IF a = <<>> THEN TRUE
    ELSE IF Head(a) = Head(b) THEN CharsLess(Tail(a), Tail(b))
    ELSE Head(a) < Head(b)

\* The order of two keys of kind Tile under the same parent: by name.
KeyLess(j, k) ==
    \/ CharsLess(NameChars(j[3]), NameChars(k[3]))
    \/ j[3] = k[3] /\ j[2] < k[2]

MinKey(S) == CHOOSE k \in S : \A u \in S : u = k \/ KeyLess(k, u)

RECURSIVE QueryRun(_)
\* datastore.NewQuery("Tile").Ancestor(oKey) run to its end. The query
\* sets no order: the rows come as the datastore's index on the kind holds
\* them, in the order of their keys.
QueryRun(S) ==
    IF S = {} THEN <<>> ELSE <<MinKey(S)>> \o QueryRun(S \ {MinKey(S)})

\* The entry of a tile: "%s/%d/%d/%d.png" of base, t.Zoom, t.X, t.Y.
TileEntry(key) ==
    [file |-> "png", zoom |-> key[3][3], x |-> key[3][1], y |-> key[3][2]]

\* The entry of addIndexToZip: "%s/index.html".
IndexEntry == [file |-> "index.html", zoom |-> 0, x |-> 0, y |-> 0]

\* addTilesToZip: one entry per row, in the order the query yields the rows.
AddTilesToZip(rws) ==
    [i \in 1..Cardinality(rws) |-> TileEntry(QueryRun(rws)[i])]

\* The zip file zipHandler has written when z.Close returns.
ZipFile(rws) == AddTilesToZip(rws) \o <<IndexEntry>>

\* getOverlay, addTilesToZip (the query over the Tile rows), addIndexToZip,
\* z.Close.
ZipRead(z) ==
    /\ z \in 1..Len(zips)
    /\ zips[z].pc = "queued"
    /\ zips' = [zips EXCEPT ![z] =
                  [pc |-> "read", o |-> overlay, entries |-> ZipFile(rows)]]
    /\ UNCHANGED <<outVars, overlay, rows, q, blobs, msgs, proc, workerVars, nexp, nerr>>

\* createBlob, then datastore.Put of the Overlay as getOverlay read it
\* with the blob key in Zip.
ZipPut(z) ==
    /\ z \in 1..Len(zips)
    /\ zips[z].pc = "read"
    /\ blobs' = Append(blobs, zips[z].entries)
    /\ overlay' = [zips[z].o EXCEPT !.Zip = BlobKey(Len(blobs) + 1)]
    /\ zips' = [zips EXCEPT ![z].pc = "put"]
    /\ tx' = Dirty(tx)
    /\ UNCHANGED <<outVars, msgs, rows, q, proc, pc, wo, errs, recvd, err, errc,
                   gor, done, logged, nexp, nerr>>

\* send of the zip-done message, and the handler returns nil.
ZipSendStep(z, ok, sok) ==
    /\ z \in 1..Len(zips)
    /\ zips[z].pc = "put"
    /\ zips' = [zips EXCEPT ![z].pc = AfterSend(ok, "done")]
    /\ Send(ZipDoneMessage, sok)
    /\ UNCHANGED <<dl, overlay, rows, q, blobs, proc, workerVars, nexp, nerr>>

\* The step when the send queue takes the message.
ZipSend(z) == ZipSendStep(z, TRUE, TRUE)

\* The /zip task whose handler returned an error: the zip queue does not
\* run it again.
ZipTaskAfterError == "failed"

\* Any step of zipHandler fails: the handler returns its error.
ZipFail(z) ==
    /\ z \in 1..Len(zips)
    /\ zips[z].pc \in {"queued", "read"}
    /\ nerr < MaxErrors
    /\ nerr' = nerr + 1
    /\ zips' = [zips EXCEPT ![z].pc = ZipTaskAfterError]
    /\ UNCHANGED <<outVars, overlay, rows, q, blobs, msgs, proc, workerVars, nexp>>

\* --------------------------------------------------------- sendHandler
\* The /send task of message m runs: channel.Send delivers the message, or
\* fails and the failure is logged. The handler writes no status either
\* way, so the task is done.
SendHandler(m, ok) ==
    /\ BagIn(m, sendq)
    /\ sendq' = sendq (-) SetToBag({m})
    /\ lost' = IF ok THEN lost ELSE lost \cup {m}
    /\ UNCHANGED <<overlay, rows, q, zips, blobs, msgs, proc, workerVars,
                   nexp, nerr, dl>>

\* ----------------------------------------------------- downloadHandler
\* A handler that tests the Zip field for the empty value only.
DownloadResponseNonEmpty(zip) ==
    IF zip = ""
    THEN [status |-> "error", blob |-> ""]
    ELSE [status |-> "sent", blob |-> zip]

\* "overlay's zip not generated yet" for the empty Zip and the sentinel,
\* blobstore.Send(w, o.Zip) otherwise.
DownloadResponse(zip) ==
    IF zip = "" \/ zip = zipSentinel
    THEN [status |-> "error", blob |-> ""]
    ELSE [status |-> "sent", blob |-> zip]

\* A /download request for the Overlay.
Download ==
    /\ dl' = DownloadResponse(overlay.Zip)
    /\ dl' # dl
    /\ UNCHANGED <<overlay, rows, q, zips, blobs, msgs, proc, workerVars,
                   nexp, nerr, sendq, lost>>

\* ------------------------------------------------------- specification
Next ==
    \/ ProcessGet
    \/ \E n \in 0..MaxTiles : ProcessPut(n)
    \/ \E w \in Workers : Start(w)
    \/ \E w \in Workers : \E S \in SUBSET Tasks : Lease(w, S)
    \/ \E w \in Workers : LeaseEmpty(w)
    \/ \E w \in Workers : LeaseFail(w)
    \/ \E w \in Workers : \E S \in SUBSET Tasks : RenderPanic(w, S)
    \/ \E t \in Tasks : Expire(t)
    \/ \E w \in Workers : \E g \in gor[w] : GoPut(w, g)
    \/ \E w \in Workers : \E g \in gor[w] : GoPutFail(w, g)
    \/ \E w \in Workers : \E g \in gor[w] : GoDelete(w, g)
    \/ \E w \in Workers : \E g \in gor[w] : GoDeleteFail(w, g)
    \/ \E w \in Workers : \E g \in gor[w] : GoUnblock(w, g)
    \/ \E w \in Workers : WaitRecv(w)
    \/ \E w \in Workers : TxRun(w)
    \/ \E w \in Workers : TxCommit(w)
    \/ \E w \in Workers : TxFail(w)
    \/ \E w \in Workers : AfterCheckDone(w)
    \/ \E z \in 1..Len(zips) : ZipRead(z)
    \/ \E z \in 1..Len(zips) : ZipPut(z)
    \/ \E z \in 1..Len(zips) : ZipSend(z)
    \/ \E z \in 1..Len(zips) : ZipFail(z)

\* One /process request for the Overlay.
Spec == Init /\ [][Next]_vars

\* The steps of a run in which no API call fails and no lease runs out.
NextRe ==
    \/ ProcessGet
    \/ \E n \in 0..MaxTiles : ProcessPut(n)
    \/ \E w \in Workers : Start(w)
    \/ \E w \in Workers : \E S \in SUBSET Tasks : Lease(w, S)
    \/ \E w \in Workers : LeaseEmpty(w)
    \/ \E w \in Workers : \E g \in gor[w] : GoPut(w, g)
    \/ \E w \in Workers : \E g \in gor[w] : GoDelete(w, g)
    \/ \E w \in Workers : \E g \in gor[w] : GoUnblock(w, g)
    \/ \E w \in Workers : WaitRecv(w)
    \/ \E w \in Workers : TxRun(w)
    \/ \E w \in Workers : TxCommit(w)
    \/ \E w \in Workers : AfterCheckDone(w)
    \/ \E z \in 1..Len(zips) : ZipRead(z)
    \/ \E z \in 1..Len(zips) : ZipPut(z)
    \/ \E z \in 1..Len(zips) : ZipSend(z)

\* Repeated /process requests for the same Overlay, without API failures
\* and lease expiries.
SpecRe == InitRe /\ [][NextRe]_vars

\* What the request of worker w and its goroutines can do next.
WorkerStep(w) ==
    \/ Start(w)
    \/ \E S \in SUBSET Tasks : Lease(w, S)
    \/ LeaseEmpty(w)
    \/ \E g \in gor[w] : GoPut(w, g)
    \/ \E g \in gor[w] : GoDelete(w, g)
    \/ \E g \in gor[w] : GoUnblock(w, g)
    \/ WaitRecv(w)
    \/ TxRun(w)
    \/ TxCommit(w)
    \/ AfterCheckDone(w)

ProcessStep == ProcessGet \/ \E n \in 0..MaxTiles : ProcessPut(n)

ZipStep == \E z \in 1..Len(zips) : ZipRead(z) \/ ZipPut(z) \/ ZipSend(z)

\* The steps of a run in which no API call is made to fail; leases may
\* still run out.
NextLive ==
    \/ ProcessStep
    \/ \E w \in Workers : WorkerStep(w)
    \/ \E t \in Tasks : Expire(t)
    \/ ZipStep

\* One /process request, no injected failure, and every request, goroutine
\* and task that can take a step eventually takes one.
SpecLive ==
    /\ Init
    /\ [][NextLive]_vars
    /\ WF_vars(ProcessStep)
    /\ \A w \in Workers : WF_vars(WorkerStep(w))
    /\ WF_vars(ZipStep)

\* The steps of one /process run without API failures, in which a send
\* may fail and the /send tasks run.
NextSend ==
    \/ ProcessGet
    \/ \E n \in 0..MaxTiles : ProcessPut(n)
    \/ \E w \in Workers : Start(w)
    \/ \E w \in Workers : \E S \in SUBSET Tasks : Lease(w, S)
    \/ \E w \in Workers : LeaseEmpty(w)
    \/ \E t \in Tasks : Expire(t)
    \/ \E w \in Workers : \E g \in gor[w] : GoPut(w, g)
    \/ \E w \in Workers : \E g \in gor[w] : \E ok \in BOOLEAN :
          GoDeleteSend(w, g, ok, ok)
    \/ \E w \in Workers : \E g \in gor[w] : GoUnblock(w, g)
    \/ \E w \in Workers : WaitRecv(w)
    \/ \E w \in Workers : TxRun(w)
    \/ \E w \in Workers : TxCommit(w)
    \/ \E w \in Workers : \E ok \in BOOLEAN : AfterCheckDoneSend(w, ok, ok)
    \/ \E z \in 1..Len(zips) : ZipRead(z)
    \/ \E z \in 1..Len(zips) : ZipPut(z)
    \/ \E z \in 1..Len(zips) : \E ok \in BOOLEAN : ZipSendStep(z, ok, ok)
    \/ \E m \in BagToSet(sendq) : \E ok \in BOOLEAN : SendHandler(m, ok)

SpecSend == Init /\ [][NextSend]_vars

\* One /process request, with API failures and lease expiries, and
\* /download requests at any time.
NextServe == Next \/ Download

SpecServe == Init /\ [][NextServe]_vars

\* scaleCoord: mercator pixels to tile coordinates at a zoom level.
ScaleCoord(p, zoom) == (p * 2^zoom) \div 256

\* tilesForZoom for an overlay whose corners span box = [l, r, t, b] in
\* mercator pixels: the tiles of the zoom level, none if they are too many.
TilesForZoom(box, zoom) ==
    LET l == ScaleCoord(box.l, zoom)
        r == ScaleCoord(box.r, zoom)
        t == ScaleCoord(box.t, zoom)
        b == ScaleCoord(box.b, zoom)
    IN IF (r - l + 1) * (b - t + 1) > tilesPerZoom
       THEN {}
       ELSE {[X |-> x, Y |-> y, Zoom |-> zoom] : x \in l..r, y \in t..b}

\* The tiles processHandler computes for the zoom levels 0..ZipMaxZoom.
JobTiles(box) == UNION {TilesForZoom(box, zoom) : zoom \in 0..ZipMaxZoom}

\* The spans of the overlays, in mercator pixels.
Boxes ==
    {box \in [l : {0, 64, 128, 192}, r : {0, 64, 128, 192},
              t : {0, 64, 128, 192}, b : {0, 64, 128, 192}] :
        box.l <= box.r /\ box.t <= box.b}

\* A job whose tiles are all stored and whose /zip task is in the zip queue.
InitZip ==
    \E box \in Boxes :
        /\ overlay = [Tiles |-> Cardinality(JobTiles(box)), Zip |-> zipSentinel]
        /\ rows = {TileKey(0, t) : t \in JobTiles(box)}
        /\ q = [t \in Tasks |-> "absent"]
        /\ zips = <<NewZipTask>>
        /\ blobs = <<>>
        /\ msgs = {TilesDoneMessage}
        /\ proc = [pc |-> "idle", o |-> [Tiles |-> 0, Zip |-> ""], runs |-> 1,
                   limit |-> 1]
        /\ pc = [w \in Workers |-> "done"]
        /\ wo = [w \in Workers |-> Cardinality(JobTiles(box))]
        /\ errs = [w \in Workers |-> 0]
        /\ recvd = [w \in Workers |-> 0]
        /\ err = [w \in Workers |-> "nil"]
        /\ errc = [w \in Workers |-> <<>>]
        /\ gor = [w \in Workers |-> {}]
        /\ tx = [w \in Workers |-> NoTx]
        /\ done = [w \in Workers |-> TRUE]
        /\ logged = [w \in Workers |-> FALSE]
        /\ nexp = 0
        /\ nerr = 0
        /\ sendq = EmptyBag
        /\ lost = {}
        /\ dl = [status |-> "none", blob |-> ""]

NextZip == \E z \in 1..Len(zips) : ZipRead(z) \/ ZipPut(z) \/ ZipSend(z)

\* The zipHandler run of a job whose tiles are stored.
SpecZip == InitZip /\ [][NextZip]_vars

\* ------------------------------------------------------------- claims
AllGoroutines == UNION {{<<w, g>> : g \in gor[w]} : w \in Workers}

ErrcValues(w) == {errc[w][i] : i \in 1..Len(errc[w])}

\* C1: for one /process run, however many checkDone calls the workers make
\* and however they overlap, at most one /zip task is ever in the zip queue,
\* and no step taken while the Zip field is non-empty adds a task to it.
C1_AtMostOneZipTask ==
    /\ [](Len(zips) <= 1)
    /\ [][overlay.Zip # "" => Len(zips') = Len(zips)]_vars

\* C1 witness: two workers called checkDone on the same count; the one whose
\* first attempt lost the write conflict ran again, found the sentinel and
\* returned done without a second task.
C1_Witness ==
    \E w \in Workers :
        /\ pc[w] = "checked"
        /\ done[w]
        /\ tx[w].attempt = 2
        /\ tx[w].zip = zipSentinel
        /\ Len(zips) = 1

\* C2: whenever checkDone has returned (done, nil), done is true exactly when
\* the count of Tile rows it read is at least the Tiles it read.
C2_DoneIffCountAtLeastTiles ==
    \A w \in Workers :
        pc[w] = "checked" => (done[w] <=> tx[w].count >= tx[w].tiles)

\* C3: once the /zip task is enqueued (Zip has left empty) exactly Tiles rows
\* are stored, no worker holds a leased batch it has not stored, and the
\* archive zipHandler reads has exactly Tiles tile entries.
C3_TriggerOnlyWhenAllStored ==
    overlay.Zip # "" =>
        /\ Cardinality(rows) = overlay.Tiles
        /\ \A wg \in AllGoroutines : wg[2].stage # "put"
        /\ \A z \in 1..Len(zips) :
              zips[z].pc \in {"read", "put", "done"} =>
                  Len(zips[z].entries) - 1 = overlay.Tiles

\* The order of the Zip field's states.
ZipRank(zip) == IF zip = "" THEN 0 ELSE IF zip = zipSentinel THEN 1 ELSE 2

\* C4: every change of the Overlay's Zip field is empty -> sentinel or
\* sentinel -> ready.
C4_ZipOnlyForward ==
    [][overlay'.Zip # overlay.Zip =>
          ZipRank(overlay'.Zip) = ZipRank(overlay.Zip) + 1]_vars

\* C5: in every state a /zip task is in the zip queue exactly if the Zip
\* field is non-empty, and a checkDone call that fails returns false and
\* leaves the Overlay and the zip queue as they were.
C5_SentinelAndTaskAtomic ==
    /\ []((Len(zips) > 0) <=> (overlay.Zip # ""))
    /\ [][\A w \in Workers :
             (pc[w] \in {"check", "commit"} /\ pc'[w] = "failed") =>
                 (~done'[w] /\ overlay' = overlay /\ zips' = zips)]_vars

\* C5 witness: a checkDone call failed after its transaction function had
\* buffered the Add and the Put; the Zip field is empty and so is the queue.
C5_Witness ==
    \E w \in Workers :
        /\ pc[w] = "failed"
        /\ tx[w].create
        /\ ~done[w]
        /\ overlay.Zip = ""
        /\ zips = <<>>

\* C6: the number of stored Tile rows never exceeds the Overlay's Tiles.
C6_RowsAtMostTiles == Cardinality(rows) <= overlay.Tiles

\* C6 witness: two goroutines of different workers have both stored the
\* tile of the same work item (its lease ran out in between), and the rows
\* are as many as the tiles.
C6_Witness ==
    \E a \in AllGoroutines, b \in AllGoroutines :
        /\ a[1] # b[1]
        /\ a[2].stage = "del"
        /\ b[2].stage = "del"
        /\ \E i \in 1..Len(a[2].tasks), j \in 1..Len(b[2].tasks) :
              a[2].tasks[i] = b[2].tasks[j]
        /\ Cardinality(rows) = overlay.Tiles

\* The tile has a stored row.
Stored(tile) == \E c \in {0} \cup Workers : TileKey(c, tile) \in rows

\* C7: every tile of the job has its work item in the tile queue (visible
\* or leased) or a stored Tile row.
C7_NoWorkItemLost ==
    \A t \in Tasks :
        q[t] # "absent" => (q[t] \in {"visible", "leased"} \/ Stored(TaskTile(t)))

\* C7 witness: a PutMulti failed, its goroutine reported the error, and the
\* work items of the batch are still in the queue without rows.
C7_Witness ==
    \E w \in Workers :
        /\ "put" \in ErrcValues(w) \cup {err[w]}
        /\ \E t \in Tasks : q[t] = "leased" /\ ~Stored(TaskTile(t))

Returned(w) == pc[w] \in {"done", "failed"}

\* C8: with no failing API call, under leases that run out and tasks that
\* are delivered again, every sliceHandler run that starts returns.
C8_EveryRunTerminates ==
    \A w \in Workers : (pc[w] = "start") ~> Returned(w)

\* C8 witness: a lease ran out, its task was leased again, and every worker
\* has returned nil.
C8_Witness ==
    /\ nexp > 0
    /\ \E t \in Tasks : q[t] = "deleted"
    /\ \A w \in Workers : pc[w] = "done"

TileQueueEmpty == \A t \in Tasks : q[t] \in {"absent", "deleted"}

C10_NotDoneRestartsCycle ==
    [][\A w \in Workers :
         /\ (pc[w] = "checked" /\ ~done[w] /\ pc'[w] # pc[w]) => pc'[w] = "lease"
         /\ (pc'[w] = "check" /\ pc[w] # "check") =>
                pc[w] \in {"lease", "wait", "commit"}
         /\ (pc'[w] = "done" /\ pc[w] # "done") =>
                (pc[w] = "checked" /\ done[w])]_vars

\* C10 witness: a worker logged "Not done; trying again", went round the
\* cycle again and has returned nil.
C10_Witness ==
    \E w \in Workers : logged[w] /\ pc[w] = "done" /\ done[w]

\* C11: an error in a batch ends the pass: the wait loop keeps the first
\* error it receives, a worker with an error never goes on to checkDone,
\* a worker that failed stays failed, the tiles-done messages are as many
\* as the workers that returned nil, and a work item is deleted only if
\* its tile is stored.
C11_ErrorAbortsPass ==
    /\ [](\A w \in Workers : err[w] # "nil" => pc[w] \in {"wait", "failed"})
    /\ [](CopiesIn(TilesDoneMessage, sendq) =
             Cardinality({w \in Workers : pc[w] = "done"}))
    /\ [](\A t \in Tasks : q[t] = "deleted" => Stored(TaskTile(t)))
    /\ [][\A w \in Workers :
             /\ (pc[w] = "wait" /\ recvd'[w] = recvd[w] + 1) =>
                   /\ err[w] # "nil" => err'[w] = err[w]
                   /\ err[w] = "nil" => err'[w] = Head(errc[w])
                   /\ (recvd'[w] = errs[w] /\ err'[w] # "nil") =>
                          pc'[w] = "failed"
             /\ pc[w] = "failed" => pc'[w] = "failed"
             /\ (pc'[w] = "failed" /\ pc[w] # "failed") =>
                   (sendq' = sendq /\ msgs' = msgs)]_vars

\* C11 witness: a worker with two commit goroutines in its pass received
\* both values, one of them an error, and returned the error; a work item
\* of the job is still leased.
C11_Witness ==
    \E w \in Workers :
        /\ pc[w] = "failed"
        /\ err[w] # "nil"
        /\ errs[w] = 2
        /\ recvd[w] = 2
        /\ \E t \in Tasks : q[t] = "leased"

\* C12: no sliceHandler run ends with an error: a queue or store error
\* is absorbed and the run goes round the cycle again.
C12_ErrorsAbsorbed == \A w \in Workers : pc[w] # "failed"

\* C13: once a zipHandler run has failed, the Zip field is the sentinel,
\* no zip-done message was passed to send, and the zip queue got no second
\* /zip task.
C13_ZipFailureTerminal ==
    \A z \in 1..Len(zips) :
        zips[z].pc = "failed" =>
            /\ overlay.Zip = zipSentinel
            /\ ZipDoneMessage \notin msgs
            /\ ZipDoneMessage \notin BagToSet(sendq)
            /\ Len(zips) = 1

\* C13 witness: the zipHandler run failed after it had read the rows, and
\* a checkDone call that read the sentinel returned done without a task.
C13_Witness ==
    /\ Len(zips) = 1
    /\ zips[1].pc = "failed"
    /\ zips[1].o.Zip = zipSentinel
    /\ \E w \in Workers :
          pc[w] = "checked" /\ done[w] /\ tx[w].zip = zipSentinel

\* The kinds of content a message carries.
MessageKinds(m) ==
    (IF m.IDs # <<>> THEN {"ids"} ELSE {}) \cup
    (IF m.TilesDone THEN {"tilesDone"} ELSE {}) \cup
    (IF m.ZipDone THEN {"zipDone"} ELSE {})

\* C14: every message passed to send carries exactly one of a non-empty
\* IDs list, TilesDone and ZipDone.
C14_OneKindPerMessage ==
    \A m \in msgs : Cardinality(MessageKinds(m)) = 1

\* C14 witness: a progress message for a batch that holds every tile of
\* the job, a tiles-done message and a zip-done message were passed to send.
C14_Witness ==
    /\ \E m \in msgs : MessageKinds(m) = {"ids"} /\ Len(m.IDs) = m.Total
    /\ \E m \in msgs : MessageKinds(m) = {"tilesDone"}
    /\ \E m \in msgs : MessageKinds(m) = {"zipDone"}

\* The state of the pipeline: everything but the send queue, the log of
\* failed sends and the /download response.
pipeVars == <<overlay, rows, q, zips, blobs, msgs, proc, pc, wo, errs, recvd,
              err, errc, gor, tx, done, logged, nexp, nerr>>

\* A step of the pipeline as it is when the send of the step works.
PipeStep ==
    \/ ProcessGet
    \/ \E n \in 0..MaxTiles : ProcessPut(n)
    \/ \E w \in Workers : Start(w)
    \/ \E w \in Workers : \E S \in SUBSET Tasks : Lease(w, S)
    \/ \E w \in Workers : LeaseEmpty(w)
    \/ \E t \in Tasks : Expire(t)
    \/ \E w \in Workers : \E g \in gor[w] : GoPut(w, g)
    \/ \E w \in Workers : \E g \in gor[w] : \E sok \in BOOLEAN :
          GoDeleteSend(w, g, TRUE, sok)
    \/ \E w \in Workers : \E g \in gor[w] : GoUnblock(w, g)
    \/ \E w \in Workers : WaitRecv(w)
    \/ \E w \in Workers : TxRun(w)
    \/ \E w \in Workers : TxCommit(w)
    \/ \E w \in Workers : \E sok \in BOOLEAN : AfterCheckDoneSend(w, TRUE, sok)
    \/ \E z \in 1..Len(zips) : ZipRead(z)
    \/ \E z \in 1..Len(zips) : ZipPut(z)
    \/ \E z \in 1..Len(zips) : \E sok \in BOOLEAN : ZipSendStep(z, TRUE, sok)

\* C15: in a run in which sends fail and /send tasks fail, every change of
\* the pipeline state (Overlay, Tile rows, tile queue, zip queue, the
\* handlers' positions and results) is the change the same step makes when
\* its send works; and a step that logs a failed send adds no /send task.
C15_SendDoesNotInterfere ==
    /\ [][PipeStep]_pipeVars
    /\ [][lost' # lost =>
            \A m \in BagToSet(sendq') : CopiesIn(m, sendq') <= CopiesIn(m, sendq)]_vars

\* C15 witness: the sends of a progress message and of the zip-done message
\* failed, and the job is complete: every worker returned nil, the archive
\* is stored and the Zip field is ready.
C15_Witness ==
    /\ \E m \in lost : m.IDs # <<>>
    /\ ZipDoneMessage \in lost
    /\ ~BagIn(ZipDoneMessage, sendq)
    /\ \A w \in Workers : pc[w] = "done"
    /\ Len(zips) = 1
    /\ zips[1].pc = "done"
    /\ overlay.Zip = BlobKey(1)
    /\ Cardinality(rows) = MaxTiles

\* The tile entries of an archive.
TileEntries(entries) == SelectSeq(entries, LAMBDA e : e.file = "png")

\* Ascending zoom, then x, then y.
EntryLess(d, e) ==
    \/ d.zoom < e.zoom
    \/ d.zoom = e.zoom /\ d.x < e.x
    \/ d.zoom = e.zoom /\ d.x = e.x /\ d.y < e.y

\* C16: the tile entries of every archive zipHandler has written are in
\* ascending order of zoom, then x, then y.
C16_ArchiveOrderZoomXY ==
    \A z \in 1..Len(zips) :
        zips[z].pc \in {"read", "put", "done"} =>
            LET es == TileEntries(zips[z].entries)
            IN \A i \in 1..Len(es), j \in 1..Len(es) :
                  i < j => EntryLess(es[i], es[j])

\* C17: for a job with Tiles = 0 every checkDone call that returns without
\* an error returns done = true, no worker goes round the cycle again, the
\* /zip task is enqueued once a call has returned, and the archive holds
\* the index entry only.
C17_ZeroTilesJob ==
    (proc.runs = 1 /\ overlay.Tiles = 0) =>
        /\ \A w \in Workers : pc[w] = "checked" => done[w]
        /\ \A w \in Workers : ~logged[w]
        /\ (\E w \in Workers : pc[w] \in {"checked", "done"}) => Len(zips) = 1
        /\ \A z \in 1..Len(zips) :
              zips[z].pc \in {"read", "put", "done"} => zips[z].entries = <<IndexEntry>>
        /\ \A n \in 1..Len(blobs) : blobs[n] = <<IndexEntry>>

\* C17 witness: the job has no tiles, every worker returned nil after one
\* pass, and the stored archive holds the index entry only.
C17_Witness ==
    /\ proc.runs = 1
    /\ overlay.Tiles = 0
    /\ \A w \in Workers : pc[w] = "done" /\ ~logged[w]
    /\ Len(zips) = 1
    /\ zips[1].pc = "done"
    /\ blobs = << <<IndexEntry>> >>

\* C18: the Overlay's Tiles changes only in the first processing start.
C18_TilesSetOnce ==
    [][overlay'.Tiles # overlay.Tiles =>
          (proc.runs = 0 /\ proc.pc = "got" /\ proc'.runs = 1)]_vars

\* The blobs createBlob has stored.
StoredBlobs == {BlobKey(n) : n \in 1..Len(blobs)}

\* C19: a /download request is answered with an error exactly when the
\* Zip field is empty or the sentinel; what it sends is a stored blob; and
\* a Zip field that is neither empty nor the sentinel names a blob that a
\* zipHandler run stored before its Put.
C19_DownloadOnlyReady ==
    /\ [](dl.status = "sent" => dl.blob \in StoredBlobs)
    /\ [](overlay.Zip \notin {"", zipSentinel} =>
             /\ overlay.Zip \in StoredBlobs
             /\ \E z \in 1..Len(zips) : zips[z].pc \in {"put", "done"})
    /\ [][dl' # dl =>
             (dl'.status = "error" <=> overlay.Zip \in {"", zipSentinel})]_vars

\* C19 witness: a /download request was answered with the archive of a
\* job with tiles, after the workers had returned.
C19_Witness ==
    /\ dl.status = "sent"
    /\ dl.blob = BlobKey(1)
    /\ overlay.Zip = BlobKey(1)
    /\ overlay.Tiles = MaxTiles
    /\ \A w \in Workers : Returned(w)

\* C20: a work item is deleted only by a goroutine whose batch is stored;
\* a progress message is sent only by a goroutine that has then deleted
\* every work item of its batch, and it lists the ids of the batch's
\* tiles; a step in which a goroutine reports an error sends nothing.
C20_BatchCommitOrder ==
    /\ [](\A wg \in AllGoroutines :
             wg[2].stage = "del" =>
                 \A i \in 1..Len(wg[2].tasks) : Stored(TaskTile(wg[2].tasks[i])))
    /\ [][\A t \in Tasks :
             (q'[t] = "deleted" /\ q[t] # "deleted") =>
                 \E wg \in AllGoroutines :
                     /\ wg[2].stage = "del"
                     /\ wg[2].tasks[wg[2].i] = t
                     /\ \A i \in 1..Len(wg[2].tasks) :
                           Stored(TaskTile(wg[2].tasks[i]))]_vars
    /\ [][\A m \in BagToSet(sendq') :
             (m.IDs # <<>> /\ CopiesIn(m, sendq') > CopiesIn(m, sendq)) =>
                 \E wg \in AllGoroutines :
                     /\ wg[2].stage = "del"
                     /\ m.IDs = BatchIDs(wg[2].tasks)
                     /\ \A i \in 1..Len(wg[2].tasks) :
                           q'[wg[2].tasks[i]] = "deleted"]_vars
    /\ [][\A w \in Workers :
             (\/ Len(errc'[w]) > Len(errc[w]) /\ errc'[w][Len(errc'[w])] # "nil"
              \/ \E g \in gor'[w] \ gor[w] :
                    g.stage = "blocked" /\ g.val # "nil") =>
                 (sendq' = sendq /\ msgs' = msgs)]_vars

\* C20 witness: a batch of two tiles was stored, its two work items were
\* deleted and its progress message lists the two ids.
C20_Witness ==
    /\ \E m \in msgs : Len(m.IDs) = 2 /\ BagIn(m, sendq)
    /\ Cardinality(rows) = 2
    /\ Cardinality({t \in Tasks : q[t] = "deleted"}) = 2

\* C21: a worker that is in checkDone, or has just returned from it, has
\* no commit goroutine of its pass left: it received one value for each
\* goroutine it started, all of them nil, and the channel is empty.
C21_CheckDoneAfterOwnCommits ==
    \A w \in Workers :
        pc[w] \in {"check", "commit", "checked"} =>
            /\ gor[w] = {}
            /\ recvd[w] = errs[w]
            /\ errc[w] = <<>>
            /\ err[w] = "nil"

\* C21 witness: a worker that leased a second batch while the commit of
\* its first was under way is about to call checkDone.
C21_Witness ==
    \E w \in Workers :
        /\ pc[w] = "check"
        /\ errs[w] = 2
        /\ recvd[w] = 2
        /\ tx[w].attempt = 0

\* C22: the step that sends a tiles-done message is taken with the Zip
\* field non-empty, and the step that sends the zip-done message is taken
\* with the Zip field holding the key of a stored blob.
C22_NotificationsFollowState ==
    /\ [][CopiesIn(TilesDoneMessage, sendq') > CopiesIn(TilesDoneMessage, sendq)
             => overlay.Zip # ""]_vars
    /\ [][CopiesIn(ZipDoneMessage, sendq') > CopiesIn(ZipDoneMessage, sendq)
             => (overlay.Zip \in StoredBlobs /\ overlay'.Zip \in StoredBlobs)]_vars

\* C22 witness: the workers sent their tiles-done messages, one of them
\* before the archive was stored, and zipHandler sent the zip-done message.
C22_Witness ==
    /\ CopiesIn(TilesDoneMessage, sendq) = NumWorkers
    /\ CopiesIn(ZipDoneMessage, sendq) = 1
    /\ overlay.Zip = BlobKey(1)
    /\ Cardinality(rows) = MaxTiles

====
